---- MODULE Spec2Model ----
(***************************************************************************)
(* A model of the peoplemath planning UI: the Person / ImmutablePerson     *)
(* conversion, the bucket component's editing operations, the             *)
(* classification of objectives by tag and by group, and the people       *)
(* component's commit fraction and add/edit person operations.            *)
(*                                                                         *)
(* JavaScript values are modelled as follows.  An optional value           *)
(* (undefined or a value) is a sequence of length 0 or 1.  An array is a   *)
(* sequence; where the identity of an array matters (the bucket            *)
(* component copies arrays before changing them) arrays live in a heap     *)
(* and are named by reference.  Strings are compared through the rank of   *)
(* the string in the order the comparison uses.                            *)
(***************************************************************************)
EXTENDS Integers, Sequences, FiniteSets, TLC

VARIABLES
    \* person.spec.ts
    mut,            \* the mutable Person the test constructs
    person,         \* the ImmutablePerson built from it (optional)
    converted,      \* the result of person.toOriginal() (optional)
    attempted,      \* an assignment to person.displayName was attempted
    thrown,         \* the error that assignment threw (optional)
    \* bucket.component.ts
    heap,           \* the arrays of objectives, by reference
    bucket,         \* @Input() bucket
    otherBuckets,   \* @Input() otherBuckets
    isEditingEnabled, \* @Input() isEditingEnabled
    openDialogs,    \* the dialog this component opened and that is still open, if any
    onChanged,      \* the events emitted on @Output() onChanged, in order
    lastOp,         \* the handler that ran last, with its arguments
    \* assignments-classify.component.ts
    period,         \* @Input() period
    groupType,      \* @Input() groupType
    classes,        \* what objectivesByTag() or objectivesByGroup() returned (optional)
    \* people.component.ts
    people,         \* @Input() people
    peopleAllocations,          \* @Input() peopleAllocations
    peopleCommittedAllocations, \* @Input() peopleCommittedAllocations
    commitFraction, \* the person asked about and what personCommitFraction() returned (optional)
    peopleEditingEnabled,       \* @Input() isEditingEnabled of the people component
    peopleDialogs,  \* the dialog the people component opened and that is still open, if any
    peopleChanged,  \* the events emitted on the people component's onChanged
    peopleLastOp    \* the handler of the people component that ran last

personVars == <<mut, person, converted, attempted, thrown>>
bucketVars == <<heap, bucket, otherBuckets, isEditingEnabled, openDialogs,
                onChanged, lastOp>>

classifyVars == <<period, groupType, classes>>

peopleVars == <<people, peopleAllocations, peopleCommittedAllocations, commitFraction,
                peopleEditingEnabled, peopleDialogs, peopleChanged, peopleLastOp>>

vars == <<personVars, bucketVars, classifyVars, peopleVars>>

\* What each component's actions leave alone: the other components.
notPerson == <<bucketVars, classifyVars, peopleVars>>
notBucket == <<personVars, classifyVars, peopleVars>>
notClassify == <<personVars, bucketVars, peopleVars>>
notPeople == <<personVars, bucketVars, classifyVars>>

Range(s) == {s[i] : i \in DOMAIN s}
Min(a, b) == IF a < b THEN a ELSE b
Max(a, b) == IF a > b THEN a ELSE b

Some(x) == <<x>>
None == <<>>
IsSome(o) == o # <<>>

(***************************************************************************)
(* Person and ImmutablePerson (person.ts, exercised by person.spec.ts).    *)
(***************************************************************************)
MaxAvailability == 1

PersonIds == {"test", "other"}
DisplayNames == {"Test Person", "Bobby", ""}
Locations == {"LOC", ""}

\* new Person(id, displayName, location, availability)
Person(id, displayName, location, availability) ==
    [id |-> id, displayName |-> displayName, location |-> location,
     availability |-> availability]

\* new ImmutablePerson(p): the fields of p copied into private fields that
\* are exposed through getters only.
ImmutablePerson(p) ==
    [_id |-> p.id, _displayName |-> p.displayName, _location |-> p.location,
     _availability |-> p.availability]

toOriginalDropsLocation(ip) ==
    Person(ip._id, ip._displayName, "", ip._availability)

\* ImmutablePerson.toOriginal(): a fresh Person read through the getters.
toOriginal(ip) ==
    Person(ip._id, ip._displayName, ip._location, ip._availability)

CannotSet == "Cannot set property displayName"

setDisplayNameWritable(ip, name) ==
    [person |-> [ip EXCEPT !._displayName = name], error |-> None]

\* p.displayName = name on an ImmutablePerson: the property has a getter
\* and no setter, so the assignment throws a TypeError in strict mode and
\* the object is left as it was.
setDisplayName(ip, name) ==
    [person |-> ip, error |-> Some(CannotSet)]

PersonIdle ==
    /\ mut = Person("", "", "", 0)
    /\ person = None
    /\ converted = None
    /\ attempted = FALSE
    /\ thrown = None

PersonInit ==
    /\ mut \in {Person(i, d, l, a) : i \in PersonIds, d \in DisplayNames,
                                    l \in Locations, a \in 0..MaxAvailability}
    /\ person = None
    /\ converted = None
    /\ attempted = FALSE
    /\ thrown = None

\* const person = new ImmutablePerson(_mut)
Construct ==
    /\ person = None
    /\ person' = Some(ImmutablePerson(mut))
    /\ UNCHANGED <<mut, converted, attempted, thrown, notPerson>>

\* person.toOriginal()
ToOriginal ==
    /\ IsSome(person)
    /\ converted' = Some(toOriginal(person[1]))
    /\ UNCHANGED <<mut, person, attempted, thrown, notPerson>>

\* p.displayName = name, inside the test's expect(() => ...)
AssignDisplayName ==
    /\ IsSome(person)
    /\ \E name \in DisplayNames :
          LET r == setDisplayName(person[1], name) IN
          /\ person' = Some(r.person)
          /\ thrown' = r.error
    /\ attempted' = TRUE
    /\ UNCHANGED <<mut, converted, notPerson>>

PersonNext == Construct \/ ToOriginal \/ AssignDisplayName

(***************************************************************************)
(* BucketComponent (bucket.component.ts).                                  *)
(*                                                                         *)
(* An objective is an object whose identity is all the component looks at  *)
(* (o === objective), so it is modelled by its name.  A bucket is a record *)
(* whose objectives field is the reference of an array in the heap.        *)
(***************************************************************************)
MaxObjectives == 2      \* objectives in the component's bucket
MaxEvents == 2          \* onChanged events in one behaviour

ObjectiveIds == {"o1", "o2", "o3"}      \* the objectives that exist already
NewObjectives == {"n1"}                 \* objectives the dialogs hand back
BucketNames == {"First", "Renamed"}     \* names typed into the dialog
Percentages == {60}                     \* percentages typed into the dialog

\* The sequences of at most n distinct elements of S.
DistinctSeqs(S, n) ==
    {s \in UNION {[1..k -> S] : k \in 0..n} :
        \A i, j \in DOMAIN s : i # j => s[i] # s[j]}

\* The sequence s without the entries identical to o.
Without(s, o) == SelectSeq(s, LAMBDA x : x # o)

\* this.bucket.objectives.findIndex(o => o === objective): the 0-based index
\* of the first entry identical to objective, -1 when there is none.
objectiveIndex(objectives, objective) ==
    IF objective \in Range(objectives)
    THEN (CHOOSE i \in DOMAIN objectives :
             /\ objectives[i] = objective
             /\ \A j \in 1..(i - 1) : objectives[j] # objective) - 1
    ELSE -1

\* The array after Array.prototype.splice(start, 1): a negative start counts
\* from the end of the array, and one element is removed from there on when
\* there is one.
splice(arr, start) ==
    LET len == Len(arr)
        s == IF start < 0 THEN Max(len + start, 0) ELSE Min(start, len)
    IN  IF s >= len THEN arr
        ELSE [i \in 1..(len - 1) |-> IF i <= s THEN arr[i] ELSE arr[i + 1]]

\* The array after arr[index] = value: an index that is no array index (-1)
\* sets a property of the array object and leaves its elements alone.
setAt(arr, index, value) ==
    IF index >= 0 /\ index < Len(arr) THEN [arr EXCEPT ![index + 1] = value]
    ELSE IF index = Len(arr) THEN Append(arr, value)
    ELSE arr

\* The array after moveItemInArray(arr, fromIndex, toIndex) of the CDK: both
\* indices are clamped to the array, and the element moves from one to the
\* other with the elements in between shifted by one.
moveItemInArray(arr, fromIndex, toIndex) ==
    LET clamp(v) == Max(0, Min(Len(arr) - 1, v))
        from == clamp(fromIndex)
        to == clamp(toIndex)
    IN  IF from = to THEN arr
        ELSE [i \in 1..Len(arr) |->
                IF i - 1 = to THEN arr[from + 1]
                ELSE IF from < to /\ i - 1 >= from /\ i - 1 < to THEN arr[i + 1]
                ELSE IF to < from /\ i - 1 > to /\ i - 1 <= from THEN arr[i - 1]
                ELSE arr[i]]

SpreadAliased(h, ref) == [heap |-> h, ref |-> ref]

\* [...array]: a new array with the elements of the array at ref.
Spread(h, ref) == [heap |-> Append(h, h[ref]), ref |-> Len(h) + 1]

\* {...b, objectives: ref}
WithObjectives(b, ref) == [b EXCEPT !.objectives = ref]

\* What a handler leaves behind: the heap and the events it emitted.
Outcome(h, events) == [heap |-> h, events |-> events]

\* deleteObjective(objective)
deleteObjective(h, b, objective) ==
    LET index == objectiveIndex(h[b.objectives], objective)
        c == Spread(h, b.objectives)
        h2 == [c.heap EXCEPT ![c.ref] = splice(@, index)]
    IN  Outcome(h2, << <<b, WithObjectives(b, c.ref)>> >>)

\* moveObjective(original, newObjective, newBucket)
moveObjective(h, b, original, newObjective, newBucket) ==
    LET d == deleteObjective(h, b, original)
        c == Spread(d.heap, newBucket.objectives)
        h2 == [c.heap EXCEPT ![c.ref] = Append(@, newObjective)]
    IN  Outcome(h2, d.events \o << <<newBucket, WithObjectives(newBucket, c.ref)>> >>)

\* reorderDrop(event)
reorderDrop(h, b, previousIndex, currentIndex) ==
    LET c == Spread(h, b.objectives)
        h2 == [c.heap EXCEPT ![c.ref] = moveItemInArray(@, previousIndex, currentIndex)]
    IN  IF previousIndex # currentIndex
        THEN Outcome(h2, << <<b, WithObjectives(b, c.ref)>> >>)
        ELSE Outcome(h, << >>)   \* the copy is garbage: nothing refers to it

\* onObjectiveChanged(original, newObjective)
onObjectiveChanged(h, b, original, newObjective) ==
    LET index == objectiveIndex(h[b.objectives], original)
        c == Spread(h, b.objectives)
        h2 == [c.heap EXCEPT ![c.ref] = setAt(@, index, newObjective)]
    IN  Outcome(h2, << <<b, WithObjectives(b, c.ref)>> >>)

\* The subscriber of addObjective's dialogRef.afterClosed()
addObjectiveClosed(h, b, objective) ==
    IF objective = None THEN Outcome(h, << >>)
    ELSE LET c == Spread(h, b.objectives)
             h2 == [c.heap EXCEPT ![c.ref] = Append(@, objective[1])]
         IN  Outcome(h2, << <<b, WithObjectives(b, c.ref)>> >>)

editedObjectivesOf(b, editedBucket) == editedBucket.objectives

\* The objectives of the bucket edit() emits: this.bucket.objectives
editedObjectives(b, editedBucket) == b.objectives

\* The subscriber of edit's dialogRef.afterClosed()
editClosed(h, b, editedBucket) ==
    IF editedBucket = None THEN Outcome(h, << >>)
    ELSE LET newBucket ==
                 [displayName |-> editedBucket[1].displayName,
                  allocationPercentage |-> editedBucket[1].allocationPercentage,
                  objectives |-> editedObjectives(b, editedBucket[1])]
         IN  Outcome(h, << <<b, newBucket>> >>)

\* The record of the handler that ran last.
Op(op, original, newObjective, target, edited, emitted) ==
    [op |-> op, original |-> original, newObjective |-> newObjective,
     target |-> target, edited |-> edited, emitted |-> emitted]

BucketIdle ==
    /\ heap = << >>
    /\ bucket = [displayName |-> "", allocationPercentage |-> 0, objectives |-> 0]
    /\ otherBuckets = << >>
    /\ isEditingEnabled = FALSE
    /\ openDialogs = << >>
    /\ onChanged = << >>
    /\ lastOp = Op("", "", "", None, None, 0)

BucketInit ==
    /\ \E own \in DistinctSeqs(ObjectiveIds, MaxObjectives) :
       \E other \in DistinctSeqs(ObjectiveIds \ Range(own), 1) :
          heap = <<own, other>>
    /\ bucket = [displayName |-> "First", allocationPercentage |-> 50, objectives |-> 1]
    /\ otherBuckets = << [displayName |-> "Second", allocationPercentage |-> 50,
                          objectives |-> 2] >>
    /\ isEditingEnabled \in BOOLEAN
    /\ openDialogs = << >>
    /\ onChanged = << >>
    /\ lastOp = Op("", "", "", None, None, 0)

\* A handler ran to its end with outcome r.
Ran(r, op) ==
    /\ Len(onChanged) + Len(r.events) <= MaxEvents
    /\ heap' = r.heap
    /\ onChanged' = onChanged \o r.events
    /\ lastOp' = [op EXCEPT !.emitted = Len(r.events)]

\* The dialogs are modal: while one is open its backdrop keeps the user from
\* the component, so a handler starts only when no dialog is open.
NoDialogOpen == openDialogs = << >>

RemoveAt(s, i) == [j \in 1..(Len(s) - 1) |-> IF j < i THEN s[j] ELSE s[j + 1]]

EditUnguarded ==
    /\ NoDialogOpen
    /\ openDialogs' = Append(openDialogs, "editBucket")
    /\ lastOp' = Op("edit", "", "", None, None, 0)
    /\ UNCHANGED <<heap, bucket, otherBuckets, isEditingEnabled, onChanged, notBucket>>

\* edit(): returns at once unless editing is enabled, opens the edit-bucket
\* dialog otherwise.
Edit ==
    /\ NoDialogOpen
    /\ openDialogs' = IF isEditingEnabled THEN Append(openDialogs, "editBucket")
                      ELSE openDialogs
    /\ lastOp' = Op("edit", "", "", None, None, 0)
    /\ UNCHANGED <<heap, bucket, otherBuckets, isEditingEnabled, onChanged, notBucket>>

\* The edit-bucket dialog closes, with nothing or with a bucket: a new object
\* whose objectives are an array of the dialog's own.
EditClosed ==
    \E i \in DOMAIN openDialogs :
        /\ openDialogs[i] = "editBucket"
        /\ openDialogs' = RemoveAt(openDialogs, i)
        /\ \/ Ran(editClosed(heap, bucket, None),
                  Op("editClosed", "", "", None, None, 0))
           \/ \E n \in BucketNames, a \in Percentages, os \in {<< >>, <<"n1">>} :
                LET editedBucket == [displayName |-> n, allocationPercentage |-> a,
                                     objectives |-> Len(heap) + 1]
                IN  Ran(editClosed(Append(heap, os), bucket, Some(editedBucket)),
                        Op("editClosed", "", "", None, Some(editedBucket), 0))
        /\ UNCHANGED <<bucket, otherBuckets, isEditingEnabled, notBucket>>

\* addObjective(): returns at once unless editing is enabled, opens the
\* edit-objective dialog otherwise.
AddObjective ==
    /\ NoDialogOpen
    /\ openDialogs' = IF isEditingEnabled THEN Append(openDialogs, "addObjective")
                      ELSE openDialogs
    /\ lastOp' = Op("addObjective", "", "", None, None, 0)
    /\ UNCHANGED <<heap, bucket, otherBuckets, isEditingEnabled, onChanged, notBucket>>

\* The edit-objective dialog closes, with an objective or with nothing.
AddObjectiveClosed ==
    \E i \in DOMAIN openDialogs :
    \E objective \in {None} \cup {Some(n) : n \in NewObjectives} :
        /\ openDialogs[i] = "addObjective"
        /\ openDialogs' = RemoveAt(openDialogs, i)
        /\ Ran(addObjectiveClosed(heap, bucket, objective),
               Op("addObjectiveClosed", "", IF objective = None THEN "" ELSE objective[1],
                  None, None, 0))
        /\ UNCHANGED <<bucket, otherBuckets, isEditingEnabled, notBucket>>

DeleteObjective ==
    \E objective \in ObjectiveIds :
        /\ NoDialogOpen
        /\ Ran(deleteObjective(heap, bucket, objective),
               Op("deleteObjective", objective, "", None, None, 0))
        /\ UNCHANGED <<bucket, otherBuckets, isEditingEnabled, openDialogs, notBucket>>

MoveObjective ==
    \E original \in ObjectiveIds, newObjective \in NewObjectives,
       t \in DOMAIN otherBuckets :
        /\ NoDialogOpen
        /\ Ran(moveObjective(heap, bucket, original, newObjective, otherBuckets[t]),
               Op("moveObjective", original, newObjective, Some(otherBuckets[t]), None, 0))
        /\ UNCHANGED <<bucket, otherBuckets, isEditingEnabled, openDialogs, notBucket>>

\* A drop of the drag-and-drop list: both indices are places of the list.
ReorderDrop ==
    \E previousIndex, currentIndex \in 0..(Len(heap[bucket.objectives]) - 1) :
        /\ NoDialogOpen
        /\ Ran(reorderDrop(heap, bucket, previousIndex, currentIndex),
               Op("reorderDrop", "", "", None, None, 0))
        /\ UNCHANGED <<bucket, otherBuckets, isEditingEnabled, openDialogs, notBucket>>

OnObjectiveChanged ==
    \E original \in ObjectiveIds, newObjective \in NewObjectives :
        /\ NoDialogOpen
        /\ Ran(onObjectiveChanged(heap, bucket, original, newObjective),
               Op("onObjectiveChanged", original, newObjective, None, None, 0))
        /\ UNCHANGED <<bucket, otherBuckets, isEditingEnabled, openDialogs, notBucket>>

BucketNext ==
    \/ Edit
    \/ EditClosed
    \/ AddObjective
    \/ AddObjectiveClosed
    \/ DeleteObjective
    \/ MoveObjective
    \/ ReorderDrop
    \/ OnObjectiveChanged


(***************************************************************************)
(* AssignmentsClassifyComponent (assignments-classify.component.ts).       *)
(*                                                                         *)
(* An objective is a record of its name (one per objective of the period), *)
(* the commitments of its assignments, its tags and its groups.  A Map is  *)
(* the sequence of its entries <<key, value>> in insertion order.          *)
(***************************************************************************)
MaxClassified == 3      \* objectives in the period

\* The strings in the order of String.prototype.localeCompare: letters
\* first, lower case before upper case of the same letter.
LocaleOrder == <<"a", "B", "c">>
LocaleRank(str) == CHOOSE i \in DOMAIN LocaleOrder : LocaleOrder[i] = str

localeCompareReversed(s1, s2) == LocaleRank(s2) - LocaleRank(s1)

\* s1.localeCompare(s2): negative, zero or positive
localeCompare(s1, s2) == LocaleRank(s1) - LocaleRank(s2)

Tag(name) == [name |-> name]
Group(type, name) == [groupType |-> type, groupName |-> name]

AssignmentLists == {<< >>, <<1>>, <<2>>}
TagLists ==
    {<< >>, <<Tag("a")>>, <<Tag("B")>>, <<Tag("c"), Tag("a")>>,
     <<Tag("B"), Tag("a")>>, <<Tag("a"), Tag("a")>>}
GroupLists ==
    {<< >>, <<Group("team", "a")>>, <<Group("team", "B")>>, <<Group("area", "a")>>,
     <<Group("area", "a"), Group("team", "c")>>,
     <<Group("team", "B"), Group("team", "a")>>,
     <<Group("team", "a"), Group("area", "B")>>}

RECURSIVE Sum(_)
Sum(s) == IF s = << >> THEN 0 ELSE Head(s) + Sum(Tail(s))

RECURSIVE Flatten(_)
Flatten(ss) == IF ss = << >> THEN << >> ELSE Head(ss) \o Flatten(Tail(ss))

\* ImmutableObjective.resourcesAllocated(): the commitments of the
\* objective's assignments, added up.
resourcesAllocated(o) == Sum(o.assignments)

\* totalResourcesAllocated(objectives)
totalResourcesAllocated(objectives) ==
    Sum([i \in DOMAIN objectives |-> resourcesAllocated(objectives[i])])

\* Array.prototype.sort(cmp) for a consistent comparator: a stable sort.
\* cmp[i][j] is what the comparator returns for arr[i] and arr[j].  The
\* element at i goes behind the elements that compare before it and the
\* equal ones that stood before it.
sort(arr, cmp) ==
    LET before(i) == Cardinality({j \in DOMAIN arr :
                        \/ cmp[j][i] < 0
                        \/ cmp[j][i] = 0 /\ j < i})
    IN  [k \in DOMAIN arr |-> arr[CHOOSE i \in DOMAIN arr : before(i) = k - 1]]

\* if (map.has(key)) map.get(key).push(o); else map.set(key, [o]);
pushInto(map, key, o) ==
    IF \E i \in DOMAIN map : map[i][1] = key
    THEN [i \in DOMAIN map |->
             IF map[i][1] = key THEN <<key, Append(map[i][2], o)>> ELSE map[i]]
    ELSE Append(map, <<key, <<o>>>>)

\* The map after pushing the objectives of pairs <<key, objective>> in order.
RECURSIVE pushAll(_, _)
pushAll(map, pairs) ==
    IF pairs = << >> THEN map
    ELSE pushAll(pushInto(map, Head(pairs)[1], Head(pairs)[2]), Tail(pairs))

\* (o1, o2) => o2.resourcesAllocated() - o1.resourcesAllocated()
byResourcesDescending(o1, o2) == resourcesAllocated(o2) - resourcesAllocated(o1)

\* for (const [_g, obs] of map) obs.sort(...)
sortEach(map) ==
    [i \in DOMAIN map |->
        LET obs == map[i][2] IN
        <<map[i][1],
          sort(obs, [a \in DOMAIN obs |-> [b \in DOMAIN obs |->
                        byResourcesDescending(obs[a], obs[b])]])>>]

\* The objectives of the period, bucket after bucket.
objectivesOf(p) == Flatten(p.buckets)

\* objectivesByTag()
objectivesByTag(p) ==
    LET obs == objectivesOf(p)
        pairsOf(o) == [i \in DOMAIN o.tags |-> <<o.tags[i].name, o>>]
        pairs == Flatten([i \in DOMAIN obs |-> pairsOf(obs[i])])
        obsByTag == sortEach(pushAll(<< >>, pairs))
        byName(c1, c2) == localeCompare(c1[1], c2[1])
    IN  sort(obsByTag, [a \in DOMAIN obsByTag |-> [b \in DOMAIN obsByTag |->
                          byName(obsByTag[a], obsByTag[b])]])

lastGroupOf(mgs) == mgs[Len(mgs)]

\* mgs[0]: the first of the objective's groups of the configured type
firstGroupOf(mgs) == mgs[1]

\* objectivesByGroup()
objectivesByGroup(p, type) ==
    LET obs == objectivesOf(p)
        mgsOf(o) == SelectSeq(o.groups, LAMBDA g : g.groupType = type)
        pairsOf(o) == IF Len(mgsOf(o)) > 0
                      THEN << <<firstGroupOf(mgsOf(o)).groupName, o>> >>
                      ELSE << >>
        pairs == Flatten([i \in DOMAIN obs |-> pairsOf(obs[i])])
        obsByGroup == sortEach(pushAll(<< >>, pairs))
        byResourcesThenName(c1, c2) ==
            LET d == totalResourcesAllocated(c2[2]) - totalResourcesAllocated(c1[2])
            IN  IF d # 0 THEN d ELSE localeCompare(c1[1], c2[1])
    IN  sort(obsByGroup, [a \in DOMAIN obsByGroup |-> [b \in DOMAIN obsByGroup |->
                            byResourcesThenName(obsByGroup[a], obsByGroup[b])]])

\* The objectives os, named by their place in the period.
named(os) ==
    [i \in DOMAIN os |-> [name |-> i, assignments |-> os[i].assignments,
                          tags |-> os[i].tags, groups |-> os[i].groups]]

\* The objectives os in two buckets, the first k in the first.
split(os, k) ==
    <<[i \in 1..k |-> os[i]], [i \in 1..(Len(os) - k) |-> os[k + i]]>>

\* The period holds at most MaxClassified objectives in two buckets (half of
\* them in each, or all in the first), their tags drawn from tagLists and
\* their groups from groupLists.
PeriodInit(tagLists, groupLists) ==
    \E n \in 0..MaxClassified :
    \E os \in [1..n -> [assignments : AssignmentLists, tags : tagLists,
                        groups : groupLists]] :
    \E k \in {n \div 2, n} :
        period = [buckets |-> split(named(os), k)]

ClassifyIdle ==
    /\ period = [buckets |-> << >>]
    /\ groupType = ""
    /\ classes = None

ByTagInit ==
    /\ PeriodInit(TagLists, {<< >>})
    /\ groupType = ""
    /\ classes = None

ByGroupInit ==
    /\ PeriodInit({<< >>}, GroupLists)
    /\ groupType = "team"
    /\ classes = None

ObjectivesByTag ==
    /\ classes = None
    /\ classes' = Some(objectivesByTag(period))
    /\ UNCHANGED <<period, groupType, notClassify>>

ObjectivesByGroup ==
    /\ classes = None
    /\ classes' = Some(objectivesByGroup(period, groupType))
    /\ UNCHANGED <<period, groupType, notClassify>>

(***************************************************************************)
(* PeopleComponent and EditPersonDialog (people.component.ts).             *)
(*                                                                         *)
(* A person is a record of id, displayName and availability, as this       *)
(* component constructs it.  A ReadonlyMap is a function on the keys it    *)
(* has.  A number that comes out of a division is the pair of its          *)
(* numerator and denominator; a denominator of 0 stands for the NaN or     *)
(* Infinity the division gives.                                            *)
(***************************************************************************)
MaxPeople == 2          \* people of the team
MaxAllocated == 2       \* the largest amount of resources: allocated, committed, available

PeopleIds == {"B", "a"}             \* ids of the people that exist already
EnteredIds == {"A", "a"}            \* ids typed into the dialog

\* The ids in the order of the < of strings: by UTF-16 code unit.
CodeUnitOrder == <<"", "A", "B", "a">>
CodeUnitRank(str) == CHOOSE i \in DOMAIN CodeUnitOrder : CodeUnitOrder[i] = str

\* new Person(id, displayName, availability)
TeamPerson(id, displayName, availability) ==
    [id |-> id, displayName |-> displayName, availability |-> availability]

Number(n) == [num |-> n, den |-> 1]
Quotient(a, b) == [num |-> a, den |-> b]

\* The maps from some of the ids to 0..MaxAllocated.
Maps == UNION {[ids -> 0..MaxAllocated] : ids \in SUBSET PeopleIds}

\* personAllocated(person)
personAllocated(allocations, id) ==
    IF id \in DOMAIN allocations THEN allocations[id] ELSE 0

personCommitFractionUnguarded(allocations, committedAllocations, id) ==
    Quotient(IF id \in DOMAIN committedAllocations THEN committedAllocations[id] ELSE 0,
             personAllocated(allocations, id))

\* personCommitFraction(person)
personCommitFraction(allocations, committedAllocations, id) ==
    LET totalAllocated == personAllocated(allocations, id)
        committed == IF id \in DOMAIN committedAllocations
                     THEN committedAllocations[id] ELSE 0
    IN  IF totalAllocated = 0 THEN Number(0)
        ELSE Quotient(committed, totalAllocated)

\* defaultPersonAvailability(): the availability most people have, the one
\* met first among the most frequent ones, 0 without people.
defaultPersonAvailability(ps) ==
    LET freq(a) == Cardinality({i \in DOMAIN ps : ps[i].availability = a})
        firstAt(a) == CHOOSE i \in DOMAIN ps :
                         /\ ps[i].availability = a
                         /\ \A j \in 1..(i - 1) : ps[j].availability # a
    IN  IF ps = << >> THEN 0
        ELSE ps[CHOOSE i \in DOMAIN ps :
                   /\ i = firstAt(ps[i].availability)
                   /\ \A j \in DOMAIN ps :
                         \/ freq(ps[j].availability) < freq(ps[i].availability)
                         \/ /\ freq(ps[j].availability) = freq(ps[i].availability)
                            /\ firstAt(ps[j].availability) >= i].availability

\* (a, b) => a.id < b.id ? -1 : (a.id > b.id ? 1 : 0)
byId(a, b) ==
    IF CodeUnitRank(a.id) < CodeUnitRank(b.id) THEN -1
    ELSE IF CodeUnitRank(a.id) > CodeUnitRank(b.id) THEN 1 ELSE 0

\* The subscriber of addPerson's dialogRef.afterClosed(): blank is the
\* person addPerson constructed and handed to the dialog.
addPersonClosed(ps, blank, newPerson) ==
    IF newPerson = None THEN << >>
    ELSE LET newPeople == Append(ps, blank) IN
         << sort(newPeople, [a \in DOMAIN newPeople |-> [b \in DOMAIN newPeople |->
                               byId(newPeople[a], newPeople[b])]]) >>

\* The subscriber of editPerson's dialogRef.afterClosed()
editPersonClosed(ps, edited, newPerson) ==
    IF newPerson = None THEN << >>
    ELSE << [i \in DOMAIN ps |-> IF ps[i] = edited THEN newPerson[1] ELSE ps[i]] >>

\* EditPersonDialog.onOK(): the person made of what the form holds
onOK(userId, displayName, availability) ==
    Some(TeamPerson(userId, displayName, availability))

\* EditPersonDialog.onCancel(), and confirmDelete() whose false counts as
\* nothing for the subscribers
onCancel == None

\* What the dialog can close with.
DialogResults ==
    {onCancel} \cup {onOK(i, "New", a) : i \in EnteredIds, a \in 1..MaxAllocated}

PeopleOp(op, dialogPerson, result, emitted) ==
    [op |-> op, dialogPerson |-> dialogPerson, result |-> result, emitted |-> emitted]

PeopleIdle ==
    /\ people = << >>
    /\ peopleAllocations = << >>
    /\ peopleCommittedAllocations = << >>
    /\ commitFraction = None
    /\ peopleEditingEnabled = FALSE
    /\ peopleDialogs = << >>
    /\ peopleChanged = << >>
    /\ peopleLastOp = PeopleOp("", None, None, 0)

\* The maps are drawn; the other inputs do not matter to the fraction.
CommitInit ==
    /\ people = << >>
    /\ peopleAllocations \in Maps
    /\ peopleCommittedAllocations \in Maps
    /\ commitFraction = None
    /\ peopleEditingEnabled = FALSE
    /\ peopleDialogs = << >>
    /\ peopleChanged = << >>
    /\ peopleLastOp = PeopleOp("", None, None, 0)

\* The people are drawn: at most MaxPeople, with ids of their own.
PeopleInit ==
    /\ \E ids \in DistinctSeqs(PeopleIds, MaxPeople) :
       \E avail \in [DOMAIN ids -> 1..MaxAllocated] :
          people = [i \in DOMAIN ids |-> TeamPerson(ids[i], "Old", avail[i])]
    /\ peopleAllocations = << >>
    /\ peopleCommittedAllocations = << >>
    /\ commitFraction = None
    /\ peopleEditingEnabled \in BOOLEAN
    /\ peopleDialogs = << >>
    /\ peopleChanged = << >>
    /\ peopleLastOp = PeopleOp("", None, None, 0)

\* personCommitFraction(person), for a person of any id
PersonCommitFraction ==
    \E id \in PeopleIds :
        /\ commitFraction' =
               Some([id |-> id,
                     value |-> personCommitFraction(peopleAllocations,
                                                    peopleCommittedAllocations, id)])
        /\ UNCHANGED <<people, peopleAllocations, peopleCommittedAllocations,
                       peopleEditingEnabled, peopleDialogs, peopleChanged,
                       peopleLastOp, notPeople>>

\* A handler of the people component ran to its end and emitted events.
PeopleRan(events, op) ==
    /\ Len(peopleChanged) + Len(events) <= MaxEvents
    /\ peopleChanged' = peopleChanged \o events
    /\ peopleLastOp' = [op EXCEPT !.emitted = Len(events)]

\* addPerson(): returns at once unless editing is enabled; otherwise
\* constructs a blank person and opens the dialog on it.
AddPerson ==
    /\ peopleDialogs = << >>
    /\ LET blank == TeamPerson("", "", defaultPersonAvailability(people)) IN
       /\ peopleDialogs' =
              IF peopleEditingEnabled
              THEN Append(peopleDialogs, [kind |-> "addPerson", person |-> blank])
              ELSE peopleDialogs
       /\ peopleLastOp' = PeopleOp("addPerson", None, None, 0)
    /\ UNCHANGED <<people, peopleAllocations, peopleCommittedAllocations,
                   commitFraction, peopleEditingEnabled, peopleChanged, notPeople>>

\* The add-person dialog closes.
AddPersonClosed ==
    \E i \in DOMAIN peopleDialogs, newPerson \in DialogResults :
        /\ peopleDialogs[i].kind = "addPerson"
        /\ peopleDialogs' = RemoveAt(peopleDialogs, i)
        /\ PeopleRan(addPersonClosed(people, peopleDialogs[i].person, newPerson),
                     PeopleOp("addPersonClosed", Some(peopleDialogs[i].person),
                              newPerson, 0))
        /\ UNCHANGED <<people, peopleAllocations, peopleCommittedAllocations,
                       commitFraction, peopleEditingEnabled, notPeople>>

\* editPerson(person): returns at once unless editing is enabled and there
\* is a person; otherwise opens the dialog on the person.
EditPerson ==
    \E edited \in {None} \cup {Some(people[i]) : i \in DOMAIN people} :
        /\ peopleDialogs = << >>
        /\ peopleDialogs' =
               IF peopleEditingEnabled /\ IsSome(edited)
               THEN Append(peopleDialogs, [kind |-> "editPerson", person |-> edited[1]])
               ELSE peopleDialogs
        /\ peopleLastOp' = PeopleOp("editPerson", edited, None, 0)
        /\ UNCHANGED <<people, peopleAllocations, peopleCommittedAllocations,
                       commitFraction, peopleEditingEnabled, peopleChanged, notPeople>>

\* The edit-person dialog closes.
EditPersonClosed ==
    \E i \in DOMAIN peopleDialogs, newPerson \in DialogResults :
        /\ peopleDialogs[i].kind = "editPerson"
        /\ peopleDialogs' = RemoveAt(peopleDialogs, i)
        /\ PeopleRan(editPersonClosed(people, peopleDialogs[i].person, newPerson),
                     PeopleOp("editPersonClosed", Some(peopleDialogs[i].person),
                              newPerson, 0))
        /\ UNCHANGED <<people, peopleAllocations, peopleCommittedAllocations,
                       commitFraction, peopleEditingEnabled, notPeople>>

PeopleNext == AddPerson \/ AddPersonClosed \/ EditPerson \/ EditPersonClosed

(***************************************************************************)
(* The specifications: one per component, the other components idle.       *)
(***************************************************************************)
InitPerson == PersonInit /\ BucketIdle /\ ClassifyIdle /\ PeopleIdle
SpecPerson == InitPerson /\ [][PersonNext]_vars

InitBucket == BucketInit /\ PersonIdle /\ ClassifyIdle /\ PeopleIdle
SpecBucket == InitBucket /\ [][BucketNext]_vars

InitByTag == ByTagInit /\ PersonIdle /\ BucketIdle /\ PeopleIdle
SpecByTag == InitByTag /\ [][ObjectivesByTag]_vars

InitByGroup == ByGroupInit /\ PersonIdle /\ BucketIdle /\ PeopleIdle
SpecByGroup == InitByGroup /\ [][ObjectivesByGroup]_vars

InitCommit == CommitInit /\ PersonIdle /\ BucketIdle /\ ClassifyIdle
SpecCommit == InitCommit /\ [][PersonCommitFraction]_vars

InitPeople == PeopleInit /\ PersonIdle /\ BucketIdle /\ ClassifyIdle
SpecPeople == InitPeople /\ [][PeopleNext]_vars

\* The two editing components side by side.  They share no state and each
\* leaves the other alone, so a behaviour of both is a behaviour of the
\* bucket component or one of the people component: the one that has its
\* inputs (the bucket component's heap holds its bucket's array).
BucketShown == heap # << >>
InitEditing == InitBucket \/ InitPeople
NextEditing ==
    \/ BucketShown /\ Edit
    \/ BucketShown /\ EditClosed
    \/ BucketShown /\ AddObjective
    \/ BucketShown /\ AddObjectiveClosed
    \/ BucketShown /\ DeleteObjective
    \/ BucketShown /\ MoveObjective
    \/ BucketShown /\ ReorderDrop
    \/ BucketShown /\ OnObjectiveChanged
    \/ ~BucketShown /\ AddPerson
    \/ ~BucketShown /\ AddPersonClosed
    \/ ~BucketShown /\ EditPerson
    \/ ~BucketShown /\ EditPersonClosed
SpecEditing == InitEditing /\ [][NextEditing]_vars

LastEvent == onChanged[Len(onChanged)]
EventBeforeLast == onChanged[Len(onChanged) - 1]

\* The first element of every event is a bucket that came in as an input.
EventsReplaceInputs ==
    \A i \in DOMAIN onChanged :
        onChanged[i][1] \in {bucket} \cup Range(otherBuckets)

\* A step leaves the input buckets and every array that exists as they are.
InputsUntouched ==
    /\ bucket' = bucket
    /\ otherBuckets' = otherBuckets
    /\ \A r \in DOMAIN heap : r \in DOMAIN heap' /\ heap'[r] = heap[r]

\* C3: the bucket component's operations leave the input bucket and its
\* objectives list (and every array that exists) as they are, and the first
\* element of every onChanged event is the bucket being replaced: the input
\* bucket or, for the second event of a move, the target bucket.
EditsEmitSnapshots == []EventsReplaceInputs /\ [][InputsUntouched]_vars

EditsEmitSnapshotsWitness ==
    /\ Len(onChanged) = 2
    /\ onChanged[1][1] = bucket
    /\ onChanged[2][1] = bucket
    /\ heap[onChanged[1][2].objectives] # heap[bucket.objectives]
    /\ heap[onChanged[2][2].objectives] # heap[bucket.objectives]
    /\ heap[bucket.objectives] = <<"o1", "o2">>

\* C8: deleteObjective(o) emits the bucket with exactly the entry identical
\* to o removed and all others kept in order; when o is not among the
\* objectives the emitted list equals the current list.
DeleteRemovesOnlyThat ==
    lastOp.op = "deleteObjective" =>
        /\ lastOp.emitted = 1
        /\ LastEvent[1] = bucket
        /\ heap[LastEvent[2].objectives] =
               Without(heap[bucket.objectives], lastOp.original)

\* C9: moveObjective(original, newObjective, target) emits exactly two
\* events: [source, source without original] and then [target, target with
\* newObjective appended]; the number of objectives over both is preserved.
MoveEmitsDeleteThenAdd ==
    lastOp.op = "moveObjective" =>
        LET target == lastOp.target[1]
            source2 == heap[EventBeforeLast[2].objectives]
            target2 == heap[LastEvent[2].objectives]
        IN  /\ lastOp.emitted = 2
            /\ EventBeforeLast[1] = bucket
            /\ source2 = Without(heap[bucket.objectives], lastOp.original)
            /\ LastEvent[1] = target
            /\ target2 = Append(heap[target.objectives], lastOp.newObjective)
            /\ Len(source2) + Len(target2) =
                   Len(heap[bucket.objectives]) + Len(heap[target.objectives])

\* C10: when the edit-bucket dialog closes with a result, the emitted bucket
\* takes displayName and allocationPercentage from the result and its
\* objectives are the current bucket's objectives, whatever objectives the
\* result carries; when it closes without a result nothing is emitted.
EditKeepsObjectives ==
    lastOp.op = "editClosed" =>
        IF lastOp.edited = None THEN lastOp.emitted = 0
        ELSE /\ lastOp.emitted = 1
             /\ LastEvent[1] = bucket
             /\ LastEvent[2].displayName = lastOp.edited[1].displayName
             /\ LastEvent[2].allocationPercentage = lastOp.edited[1].allocationPercentage
             /\ LastEvent[2].objectives = bucket.objectives

EditKeepsObjectivesWitness ==
    /\ lastOp.op = "editClosed"
    /\ IsSome(lastOp.edited)
    /\ lastOp.edited[1].displayName = "Renamed"
    /\ LastEvent[2].allocationPercentage = 60
    /\ heap[lastOp.edited[1].objectives] = <<"n1">>
    /\ heap[LastEvent[2].objectives] = <<"o2", "o1">>

\* The objectives of the period, and what was returned for them.
PeriodObjectives == Range(objectivesOf(period))
ClassName(c) == c[1]
ClassObjectives(c) == c[2]
TagNamesOf(o) == {o.tags[i].name : i \in DOMAIN o.tags}

DescendingByResources(obs) ==
    \A i, j \in DOMAIN obs :
        i < j => resourcesAllocated(obs[i]) >= resourcesAllocated(obs[j])

\* C4: objectivesByTag returns one class per tag name occurring in the
\* period, holding exactly the objectives (of all buckets) that carry a tag
\* of that name, no class empty; the classes are in ascending order of tag
\* name and the objectives of each class in descending order of resources
\* allocated.
GroupsByTag ==
    IsSome(classes) =>
        LET cs == classes[1] IN
        /\ {ClassName(cs[i]) : i \in DOMAIN cs} = UNION {TagNamesOf(o) : o \in PeriodObjectives}
        /\ \A i, j \in DOMAIN cs :
              i < j => LocaleRank(ClassName(cs[i])) < LocaleRank(ClassName(cs[j]))
        /\ \A i \in DOMAIN cs :
              /\ Range(ClassObjectives(cs[i])) =
                     {o \in PeriodObjectives : ClassName(cs[i]) \in TagNamesOf(o)}
              /\ ClassObjectives(cs[i]) # << >>
              /\ DescendingByResources(ClassObjectives(cs[i]))

GroupsByTagWitness ==
    /\ IsSome(classes)
    /\ Len(classes[1]) = 2
    /\ ClassName(classes[1][1]) = "a"
    /\ ClassName(classes[1][2]) = "B"
    /\ Len(ClassObjectives(classes[1][1])) = 1
    /\ Len(ClassObjectives(classes[1][2])) = 2
    /\ ClassObjectives(classes[1][2])[1].name = 3
    /\ ClassObjectives(classes[1][2])[2].name = 1
    /\ ClassObjectives(classes[1][1])[1].name = 3
    /\ Len(period.buckets[1]) = 1
    /\ Len(period.buckets[2]) = 2

\* The groups of o that are of the configured type, and the number of
\* times o stands in the classes cs.
MatchingGroups(o) == SelectSeq(o.groups, LAMBDA g : g.groupType = groupType)
Occurrences(cs, o) ==
    Sum([i \in DOMAIN cs |->
            Cardinality({k \in DOMAIN ClassObjectives(cs[i]) :
                            ClassObjectives(cs[i])[k] = o})])

\* C5: objectivesByGroup puts every objective that has a group of the
\* configured type into exactly one class, the one named by its first group
\* of that type, and an objective without such a group into none; the
\* classes are in descending order of total resources allocated, equal
\* totals in ascending order of group name, and the objectives of each class
\* in descending order of resources allocated.
GroupsByGroupType ==
    IsSome(classes) =>
        LET cs == classes[1] IN
        /\ \A o \in PeriodObjectives :
              IF MatchingGroups(o) = << >> THEN Occurrences(cs, o) = 0
              ELSE /\ Occurrences(cs, o) = 1
                   /\ \E i \in DOMAIN cs :
                         /\ ClassName(cs[i]) = MatchingGroups(o)[1].groupName
                         /\ o \in Range(ClassObjectives(cs[i]))
        /\ \A i \in DOMAIN cs : Range(ClassObjectives(cs[i])) \subseteq PeriodObjectives
        /\ \A i, j \in DOMAIN cs :
              i < j =>
                LET ti == totalResourcesAllocated(ClassObjectives(cs[i]))
                    tj == totalResourcesAllocated(ClassObjectives(cs[j]))
                IN  \/ ti > tj
                    \/ ti = tj /\ LocaleRank(ClassName(cs[i])) < LocaleRank(ClassName(cs[j]))
        /\ \A i \in DOMAIN cs : DescendingByResources(ClassObjectives(cs[i]))

GroupsByGroupTypeWitness ==
    /\ IsSome(classes)
    /\ Len(classes[1]) = 2
    /\ ClassName(classes[1][1]) = "a"
    /\ ClassName(classes[1][2]) = "c"
    /\ totalResourcesAllocated(ClassObjectives(classes[1][1])) = 2
    /\ totalResourcesAllocated(ClassObjectives(classes[1][2])) = 2
    /\ ClassObjectives(classes[1][2])[1].name = 1
    /\ ClassObjectives(classes[1][1])[1].name = 3
    /\ \E o \in PeriodObjectives : o.groups # << >> /\ MatchingGroups(o) = << >>

\* The allocation and the committed allocation of id, 0 when the map has
\* no entry for it.
AllocatedOf(id) == IF id \in DOMAIN peopleAllocations THEN peopleAllocations[id] ELSE 0
CommittedOf(id) ==
    IF id \in DOMAIN peopleCommittedAllocations THEN peopleCommittedAllocations[id] ELSE 0

\* C6: personCommitFraction(p) is 0 when p has no allocation (no entry in the
\* allocations map, or 0: nothing is divided by zero), and committed(p) /
\* allocated(p) otherwise, with committed(p) 0 when the committed map has no
\* entry; when committed(p) <= allocated(p) it lies between 0 and 1.
CommitFractionIsShare ==
    IsSome(commitFraction) =>
        LET id == commitFraction[1].id
            r == commitFraction[1].value
        IN  /\ r.den > 0
            /\ IF AllocatedOf(id) = 0 THEN r.num = 0
               ELSE r.num * AllocatedOf(id) = CommittedOf(id) * r.den
            /\ CommittedOf(id) <= AllocatedOf(id) => 0 <= r.num /\ r.num <= r.den

CommitFractionIsShareWitness ==
    /\ IsSome(commitFraction)
    /\ commitFraction[1].value = Quotient(1, 2)
    /\ commitFraction[1].id \in DOMAIN peopleCommittedAllocations

\* C7: when the add-person dialog closes with a person, onChanged emits the
\* existing people plus the person the dialog returned, in ascending order
\* of id; when the dialog is cancelled nothing is emitted.
AddPersonEmitsEntered ==
    peopleLastOp.op = "addPersonClosed" =>
        IF peopleLastOp.result = None THEN peopleLastOp.emitted = 0
        ELSE /\ peopleLastOp.emitted = 1
             /\ LET emitted == peopleChanged[Len(peopleChanged)] IN
                /\ Len(emitted) = Len(people) + 1
                /\ Range(emitted) = Range(people) \cup {peopleLastOp.result[1]}
                /\ \A i, j \in DOMAIN emitted :
                      i < j => CodeUnitRank(emitted[i].id) <= CodeUnitRank(emitted[j].id)

\* No dialog is open while editing is disabled.
NoDialogWhileDisabled ==
    /\ ~isEditingEnabled => openDialogs = << >>
    /\ ~peopleEditingEnabled => peopleDialogs = << >>

\* A step of edit, addObjective, addPerson or editPerson taken with editing
\* disabled opens no dialog and emits no event.
DisabledHandlerDoesNothing ==
    /\ ~isEditingEnabled /\ lastOp'.op \in {"edit", "addObjective"} =>
          /\ openDialogs' = openDialogs
          /\ onChanged' = onChanged
    /\ ~peopleEditingEnabled /\ peopleLastOp'.op \in {"addPerson", "editPerson"} =>
          /\ peopleDialogs' = peopleDialogs
          /\ peopleChanged' = peopleChanged

\* C11: when isEditingEnabled is false (or unset, which is as false),
\* BucketComponent.edit, BucketComponent.addObjective,
\* PeopleComponent.addPerson and PeopleComponent.editPerson open no dialog
\* and emit no onChanged event, in any state and for any arguments.
DisabledEditingIsInert ==
    []NoDialogWhileDisabled /\ [][DisabledHandlerDoesNothing]_vars

DisabledEditingIsInertWitness ==
    /\ ~isEditingEnabled
    /\ lastOp.op = "addObjective"
    /\ Len(onChanged) = 1
    /\ heap[bucket.objectives] = <<"o1", "o2">>
    /\ openDialogs = << >>

====
